---------------------------- MODULE Spec2Model ----------------------------
(***************************************************************************)
(* Model of the provider layer of cursor-tools (src/providers/base.ts), of  *)
(* the environment listing of the MCP client                               *)
(* (src/commands/mcp/client/MCPClientNew.ts) and of the API key setup of   *)
(* the install command (src/commands/install.ts).                          *)
(*                                                                         *)
(* Strings the code inspects character by character (model names, API key  *)
(* values, environment variable names) are sequences of one-character      *)
(* strings, so that startsWith, endsWith, includes, split, slice,          *)
(* toLowerCase, toUpperCase and localeCompare are computed as the code     *)
(* computes them.                                                          *)
(***************************************************************************)
EXTENDS Integers, Sequences, FiniteSets, TLC

VARIABLES retry, gp, gm, cite, cred, env, px, wk, inst

vars == <<retry, gp, gm, cite, cred, env, px, wk, inst>>

\* The value of a variable that the specification at hand does not use.
Idle == [idle |-> TRUE]

(***************************************************************************)
(* String helpers (JavaScript String.prototype methods)                    *)
(***************************************************************************)

\* s.startsWith(p)
StartsWith(s, p) ==
  /\ Len(p) <= Len(s)
  /\ \A i \in 1..Len(p) : s[i] = p[i]

\* s.endsWith(p)
EndsWith(s, p) ==
  /\ Len(p) <= Len(s)
  /\ \A i \in 1..Len(p) : s[Len(s) - Len(p) + i] = p[i]

\* s.includes(p)
Includes(s, p) ==
  \E k \in 0..(Len(s) - Len(p)) : \A i \in 1..Len(p) : s[k + i] = p[i]

\* s.slice(0, -n)
DropLast(s, n) == SubSeq(s, 1, Len(s) - n)

(***************************************************************************)
(* retryWithBackoff (base.ts 247-268)                                      *)
(***************************************************************************)

\* Default parameter values of retryWithBackoff.
DefaultMaxAttempts == 5
DefaultBaseDelay == 1000

\* Largest maxAttempts the model passes to retryWithBackoff.
MaxAttemptsBound == 6

\* Math.pow(2, n) for n >= 0
RECURSIVE Pow2(_)
Pow2(n) == IF n <= 0 THEN 1 ELSE 2 * Pow2(n - 1)

\* Faulty variant of BackoffDelay: the delay grows linearly with the attempt.
BackoffDelayLinear(baseDelay, attempt) == baseDelay * attempt

\* baseDelay * Math.pow(2, attempt - 1)
BackoffDelay(baseDelay, attempt) == baseDelay * Pow2(attempt - 1)

\* Faulty variant of GiveUp: the attempt limit is compared with > instead of >=.
GiveUpOffByOne(attempt, maxAttempts, retryAnswer) ==
  attempt > maxAttempts \/ ~retryAnswer

\* The condition of line 259: attempt >= maxAttempts || !shouldRetry(error)
GiveUp(attempt, maxAttempts, retryAnswer) ==
  attempt >= maxAttempts \/ ~retryAnswer

\* The state of a call of retryWithBackoff right after `let attempt = 1`.
RetryStart(maxAttempts, baseDelay) ==
  [ maxAttempts |-> maxAttempts,
    baseDelay   |-> baseDelay,
    attempt     |-> 1,
    at          |-> "call",     \* call, caught, sleep, returned, thrown
    outcomes    |-> << >>,      \* one entry per invocation of operation
    delays      |-> << >>,      \* one entry per setTimeout
    caught      |-> Idle,       \* the error in the catch block
    value       |-> Idle,       \* the value returned
    thrown      |-> Idle ]      \* the error rethrown

\* `return await operation()`: one invocation, whose outcome is out.
\* out = [ok |-> TRUE, value |-> v] or [ok |-> FALSE, error |-> e].
RetryInvoke(out) ==
  /\ retry.at = "call"
  /\ retry' = IF out.ok
                THEN [retry EXCEPT !.outcomes = Append(@, out),
                                   !.at = "returned",
                                   !.value = out.value]
                ELSE [retry EXCEPT !.outcomes = Append(@, out),
                                   !.at = "caught",
                                   !.caught = out.error]

\* The catch block up to the setTimeout: rethrow, or schedule the wait.
RetryCatch(retryAnswer) ==
  /\ retry.at = "caught"
  /\ retry' = IF GiveUp(retry.attempt, retry.maxAttempts, retryAnswer)
                THEN [retry EXCEPT !.at = "thrown", !.thrown = retry.caught]
                ELSE [retry EXCEPT !.at = "sleep",
                        !.delays = Append(@, BackoffDelay(retry.baseDelay, retry.attempt))]

\* The timer fires: attempt++ and the loop goes round.
RetryWake ==
  /\ retry.at = "sleep"
  /\ retry' = [retry EXCEPT !.attempt = @ + 1, !.at = "call"]

(***************************************************************************)
(* Specification of retryWithBackoff alone: the operation succeeds or      *)
(* fails at will and shouldRetry answers at will.                          *)
(***************************************************************************)

\* The k-th invocation of an operation: its value or its error carries k.
AnyOutcome(k) ==
  { [ok |-> TRUE, value |-> [result |-> k]],
    [ok |-> FALSE, error |-> [cls |-> "Error", id |-> k]] }

InitRetry ==
  /\ \E m \in 1..MaxAttemptsBound, d \in {DefaultBaseDelay, 1} :
       retry = RetryStart(m, d)
  /\ gp = Idle /\ gm = Idle /\ cite = Idle /\ cred = Idle /\ env = Idle
  /\ px = Idle /\ wk = Idle /\ inst = Idle

OperationStep ==
  /\ \E out \in AnyOutcome(Len(retry.outcomes) + 1) : RetryInvoke(out)
  /\ UNCHANGED <<gp, gm, cite, cred, env, px, wk, inst>>

CatchStep ==
  /\ \E ans \in BOOLEAN : RetryCatch(ans)
  /\ UNCHANGED <<gp, gm, cite, cred, env, px, wk, inst>>

WakeStep ==
  /\ RetryWake
  /\ UNCHANGED <<gp, gm, cite, cred, env, px, wk, inst>>

NextRetry == OperationStep \/ CatchStep \/ WakeStep

SpecRetry == InitRetry /\ [][NextRetry]_vars

\* C1: retryWithBackoff invokes operation at most maxAttempts times; no
\* invocation follows a successful one; when it returns, it returns the value
\* of the last invocation, which is the first that succeeded; when it throws,
\* every invocation failed and the error is the one of the last invocation.
RetryBounded ==
  LET n == Len(retry.outcomes) IN
  /\ n <= retry.maxAttempts
  /\ \A i \in 1..n : retry.outcomes[i].ok => i = n
  /\ retry.at = "returned" =>
       /\ n >= 1 /\ retry.outcomes[n].ok
       /\ retry.value = retry.outcomes[n].value
  /\ retry.at = "thrown" =>
       /\ n >= 1 /\ ~retry.outcomes[n].ok
       /\ retry.thrown = retry.outcomes[n].error
  /\ retry.at \in {"caught", "sleep"} => n >= 1 /\ ~retry.outcomes[n].ok
  /\ retry.at = "sleep" => n < retry.maxAttempts

\* C1 witness: the default five attempts all failed with shouldRetry
\* answering yes each time, and the fifth error was rethrown.
RetryExhausted ==
  /\ retry.at = "thrown"
  /\ retry.maxAttempts = DefaultMaxAttempts
  /\ Len(retry.outcomes) = DefaultMaxAttempts
  /\ retry.thrown.id = DefaultMaxAttempts


\* C15: the wait that follows the k-th failed invocation lasts
\* baseDelay * 2^(k-1) milliseconds; one wait separates two consecutive
\* invocations; no wait follows the last invocation (the one that returned,
\* or the one whose error was rethrown).
ExponentialBackoff ==
  LET n == Len(retry.outcomes)
      w == Len(retry.delays) IN
  /\ \A k \in 1..w : retry.delays[k] = retry.baseDelay * 2^(k - 1)
  /\ retry.at \in {"call", "sleep"} => w = n
  /\ retry.at \in {"caught", "returned", "thrown"} => w = n - 1
  /\ retry.at = "call" => retry.attempt = w + 1

\* C15 witness: with the default arguments all five invocations failed;
\* the four waits lasted 1000, 2000, 4000 and 8000 ms and none followed the
\* fifth failure.
DefaultBackoffWaits ==
  /\ retry.maxAttempts = DefaultMaxAttempts
  /\ retry.baseDelay = DefaultBaseDelay
  /\ retry.at = "thrown"
  /\ retry.delays = <<1000, 2000, 4000, 8000>>

(***************************************************************************)
(* Errors (the classes of ../errors, which base.ts imports)                *)
(***************************************************************************)

\* new NetworkError(message, details): the message is the constructor's
\* argument behind a fixed prefix.
NetworkError(message) ==
  [cls |-> "NetworkError", msg |-> <<"Network error: ">> \o message]

\* new ProviderError(message)
ProviderError(message) == [cls |-> "ProviderError", msg |-> message]

\* error instanceof ProviderError. ModelNotFoundError and ApiKeyMissingError
\* are thrown where a ProviderError is expected; whether NetworkError is a
\* subclass is decided by ../errors and is the parameter netIsProvider.
IsProviderError(error, netIsProvider) ==
  \/ error.cls \in {"ProviderError", "ModelNotFoundError", "ApiKeyMissingError"}
  \/ error.cls = "NetworkError" /\ netIsProvider

\* word.toLowerCase() for the words of the messages below.
LowerWord(w) ==
  CASE w = "RESOURCE" -> "resource"
    [] w = "EXHAUSTED" -> "exhausted"
    [] w = "Quota" -> "quota"
    [] w = "Internal" -> "internal"
    [] w = "Rate" -> "rate"
    [] w = "RATE" -> "rate"
    [] w = "Too" -> "too"
    [] w = "Many" -> "many"
    [] w = "Requests" -> "requests"
    [] w = "LIMIT" -> "limit"
    [] OTHER -> w

\* message.toLowerCase(), a message being a sequence of words.
LowerMessage(msg) == [i \in 1..Len(msg) |-> LowerWord(msg[i])]

(***************************************************************************)
(* BaseProvider.getModel (base.ts 93-193)                                  *)
(***************************************************************************)

\* The characters of model names, in the order localeCompare puts them
\* (punctuation before digits before letters).
CollationOrder ==
  << "-", ".", "/", "0", "1", "2", "3", "4", "5", "6", "7", "8", "9",
     "a", "b", "c", "d", "e", "f", "g", "h", "i", "j", "k", "l", "m",
     "n", "o", "p", "q", "r", "s", "t", "u", "v", "w", "x", "y", "z" >>

CharRank(c) == CHOOSE i \in 1..Len(CollationOrder) : CollationOrder[i] = c

\* a.localeCompare(b) < 0
RECURSIVE LocaleLess(_, _)
LocaleLess(a, b) ==
  IF b = << >> THEN FALSE
  ELSE IF a = << >> THEN TRUE
  ELSE IF a[1] = b[1] THEN LocaleLess(Tail(a), Tail(b))
  ELSE CharRank(a[1]) < CharRank(b[1])

\* The comparator of the three sorts: (a, b) => b.localeCompare(a), negative
\* (a before b) when b is less than a.
DescendingBefore(a, b) == LocaleLess(b, a)

\* Insert x into a sequence sorted by DescendingBefore (stable).
RECURSIVE InsertSorted(_, _)
InsertSorted(x, sorted) ==
  IF sorted = << >> THEN <<x>>
  ELSE IF DescendingBefore(x, sorted[1]) THEN <<x>> \o sorted
  ELSE <<sorted[1]>> \o InsertSorted(x, Tail(sorted))

\* list.sort((a, b) => b.localeCompare(a))
RECURSIVE SortDescending(_)
SortDescending(list) ==
  IF list = << >> THEN << >>
  ELSE InsertSorted(list[Len(list)], SortDescending(DropLast(list, 1)))

\* list.filter(m => m.startsWith(prefix))
RECURSIVE FilterStartsWith(_, _)
FilterStartsWith(list, prefix) ==
  IF list = << >> THEN << >>
  ELSE (IF StartsWith(list[1], prefix) THEN <<list[1]>> ELSE << >>)
         \o FilterStartsWith(Tail(list), prefix)

\* s.split('/')
RECURSIVE SplitSlash(_)
SplitSlash(s) ==
  IF \A i \in 1..Len(s) : s[i] # "/" THEN <<s>>
  ELSE LET k == CHOOSE i \in 1..Len(s) :
                  s[i] = "/" /\ \A j \in 1..(i - 1) : s[j] # "/"
       IN <<SubSeq(s, 1, k - 1)>> \o SplitSlash(SubSeq(s, k + 1, Len(s)))

\* The test of the find callback of lines 110-113.
IsNamespaced(m, model) ==
  LET parts == SplitSlash(m) IN Len(parts) = 2 /\ parts[2] = model

\* Array.from(availableModels).find(...): the first in insertion order, or
\* << >> for undefined.
RECURSIVE FindNamespaced(_, _)
FindNamespaced(list, model) ==
  IF list = << >> THEN << >>
  ELSE IF IsNamespaced(list[1], model) THEN list[1]
  ELSE FindNamespaced(Tail(list), model)

DashLatest == << "-", "l", "a", "t", "e", "s", "t" >>
DashExp == << "-", "e", "x", "p" >>

\* The positions k (0-based) at which /^(.*?)(?:-exp(?:-.*)?$)/ can end its
\* first group: "-exp" follows, and then the end of the string or a "-".
ExpPositions(model) ==
  { k \in 0..(Len(model) - Len(DashExp)) :
      /\ \A i \in 1..Len(DashExp) : model[k + i] = DashExp[i]
      /\ (k + Len(DashExp) = Len(model) \/ model[k + Len(DashExp) + 1] = "-") }

\* model.match(/^(.*?)(?:-exp(?:-.*)?$)/): the lazy group takes the leftmost
\* position.
ExpMatch(model) ==
  IF ExpPositions(model) = {} THEN [matched |-> FALSE, stem |-> << >>]
  ELSE LET k == CHOOSE k \in ExpPositions(model) :
                  \A j \in ExpPositions(model) : k <= j
       IN [matched |-> TRUE, stem |-> SubSeq(model, 1, k)]

\* matches[matches.length - 1] (lines 129, 144, 161)
PickResolved(matches) == matches[Len(matches)]

Returned(model, how) == [ok |-> TRUE, model |-> model, how |-> how]
Threw(cls, detail) == [ok |-> FALSE, error |-> [cls |-> cls, msg |-> detail]]

\* Faulty variant of ResolveLoaded: when nothing matches, the requested name is
\* returned unchanged (as for a provider without a list) instead of throwing.
ResolveLoadedPassThrough(model, list) ==
  LET namespaced    == FindNamespaced(list, model)
      prefixMatches == SortDescending(FilterStartsWith(list, model))
      latestMatches == SortDescending(FilterStartsWith(list, DropLast(model, Len(DashLatest))))
      exp           == ExpMatch(model)
      expMatches    == SortDescending(FilterStartsWith(list, exp.stem))
  IN IF \E i \in 1..Len(list) : list[i] = model
       THEN Returned(model, "exact")
     ELSE IF ~Includes(model, <<"/">>) /\ namespaced # << >>
       THEN Returned(namespaced, "namespace")
     ELSE IF prefixMatches # << >>
       THEN Returned(PickResolved(prefixMatches), "prefix")
     ELSE IF EndsWith(model, DashLatest) /\ latestMatches # << >>
       THEN Returned(PickResolved(latestMatches), "latest")
     ELSE IF exp.matched /\ expMatches # << >>
       THEN Returned(PickResolved(expMatches), "exp")
     ELSE Returned(model, "unchecked")

\* Faulty variant of ResolveLoaded: the prefix step is tried before the
\* provider/name step.
ResolveLoadedPrefixFirst(model, list) ==
  LET namespaced    == FindNamespaced(list, model)
      prefixMatches == SortDescending(FilterStartsWith(list, model))
      latestMatches == SortDescending(FilterStartsWith(list, DropLast(model, Len(DashLatest))))
      exp           == ExpMatch(model)
      expMatches    == SortDescending(FilterStartsWith(list, exp.stem))
  IN IF \E i \in 1..Len(list) : list[i] = model
       THEN Returned(model, "exact")
     ELSE IF prefixMatches # << >>
       THEN Returned(PickResolved(prefixMatches), "prefix")
     ELSE IF ~Includes(model, <<"/">>) /\ namespaced # << >>
       THEN Returned(namespaced, "namespace")
     ELSE IF EndsWith(model, DashLatest) /\ latestMatches # << >>
       THEN Returned(PickResolved(latestMatches), "latest")
     ELSE IF exp.matched /\ expMatches # << >>
       THEN Returned(PickResolved(expMatches), "exp")
     ELSE Threw("ModelNotFoundError", <<"not found">>)

\* getModel from line 103 on: model is options.model, list the loaded set in
\* insertion order.
ResolveLoaded(model, list) ==
  LET namespaced    == FindNamespaced(list, model)
      prefixMatches == SortDescending(FilterStartsWith(list, model))
      latestMatches == SortDescending(FilterStartsWith(list, DropLast(model, Len(DashLatest))))
      exp           == ExpMatch(model)
      expMatches    == SortDescending(FilterStartsWith(list, exp.stem))
  IN IF \E i \in 1..Len(list) : list[i] = model
       THEN Returned(model, "exact")
     ELSE IF ~Includes(model, <<"/">>) /\ namespaced # << >>
       THEN Returned(namespaced, "namespace")
     ELSE IF prefixMatches # << >>
       THEN Returned(PickResolved(prefixMatches), "prefix")
     ELSE IF EndsWith(model, DashLatest) /\ latestMatches # << >>
       THEN Returned(PickResolved(latestMatches), "latest")
     ELSE IF exp.matched /\ expMatches # << >>
       THEN Returned(PickResolved(expMatches), "exp")
     ELSE Threw("ModelNotFoundError", <<"not found">>)

\* The promise this.availableModels: absent (the provider keeps no list),
\* resolved to a set, or rejected by initializeModels.
NoList == [state |-> "none"]
Loaded(list) == [state |-> "loaded", list |-> list]
Rejected == [state |-> "rejected"]

\* getModel(options): model is options?.model, << >> when it is missing or ''.
GetModel(model, available) ==
  IF model = << >> THEN Threw("ModelNotFoundError", <<"no model">>)
  ELSE IF available.state = "none" THEN Returned(model, "unchecked")
  ELSE IF available.state = "rejected"
    THEN [ok |-> FALSE, error |-> NetworkError(<<"Failed to fetch available models">>)]
  ELSE ResolveLoaded(model, available.list)


(***************************************************************************)
(* Specification of getModel alone: one call, for every requested name     *)
(* and every list of available models drawn from ModelUniverse.            *)
(***************************************************************************)

\* Model names the available list is drawn from.
ModelUniverse ==
  { << "m", "1" >>, << "m", "2" >>, << "m", "-", "e", "x", "p" >>,
    << "p", "/", "m" >>, << "q", "/", "m" >>, << "p", "/", "q", "/", "m" >>,
    << "n" >>, << "m" >> }

\* Values of options.model; << >> is a missing model.
RequestedModels ==
  { << >>, << "m" >>, << "m", "1" >>, << "m", "3" >>, << "p", "/", "m" >>,
    << "q" >>, << "r", "/", "m" >>,
    << "m" >> \o DashLatest, << "m", "3" >> \o DashLatest,
    << "m" >> \o DashExp, << "m", "3" >> \o DashExp \o << "-", "0", "1" >>,
    << "m", "3" >> \o DashExp \o << "x" >>,
    DashExp }

\* Largest number of models in the available list.
MaxAvailable == 3

\* The duplicate-free sequences over S of length at most n (a Set in
\* insertion order).
RECURSIVE DistinctSeqs(_, _)
DistinctSeqs(S, n) ==
  IF n = 0 THEN { << >> }
  ELSE LET shorter == DistinctSeqs(S, n - 1)
           longest == { r \in shorter : Len(r) = n - 1 }
       IN shorter \cup
          { Append(p[1], p[2]) :
              p \in { p \in longest \X S : \A i \in 1..Len(p[1]) : p[1][i] # p[2] } }

AvailableStates ==
  { NoList, Rejected } \cup { Loaded(l) : l \in DistinctSeqs(ModelUniverse, MaxAvailable) }

InitModel ==
  /\ \E m \in RequestedModels, a \in AvailableStates :
       gm = [model |-> m, available |-> a, at |-> "start", result |-> Idle]
  /\ retry = Idle /\ gp = Idle /\ cite = Idle /\ cred = Idle /\ env = Idle
  /\ px = Idle /\ wk = Idle /\ inst = Idle

\* One call of getModel, from entry to return or throw.
GetModelStep ==
  /\ gm.at = "start"
  /\ gm' = [gm EXCEPT !.at = "done", !.result = GetModel(gm.model, gm.available)]
  /\ UNCHANGED <<retry, gp, cite, cred, env, px, wk, inst>>

NextModel == GetModelStep

SpecModel == InitModel /\ [][NextModel]_vars

\* The set of names of a loaded list.
Names(list) == { list[i] : i \in 1..Len(list) }

\* C6: with the available set loaded, getModel returns an element of the set
\* or throws ModelNotFoundError; with the set empty it always throws
\* ModelNotFoundError.
ResolvedIsAvailable ==
  (gm.at = "done" /\ gm.available.state = "loaded") =>
     /\ gm.result.ok => gm.result.model \in Names(gm.available.list)
     /\ ~gm.result.ok => gm.result.error.cls = "ModelNotFoundError"
     /\ gm.available.list = << >> => ~gm.result.ok

\* C6 witness: a name outside the loaded set was resolved to a member of it.
ResolvedByFallback ==
  /\ gm.at = "done" /\ gm.available.state = "loaded"
  /\ gm.result.ok /\ gm.result.model # gm.model
  /\ gm.model \notin Names(gm.available.list)

\* The greatest name of a non-empty set in localeCompare order: the first
\* element of the descending sort.
FirstDescending(S) == CHOOSE x \in S : \A y \in S : y = x \/ LocaleLess(y, x)

\* The case C7 is about: a loaded list, a requested name ending in -latest
\* that no available name equals or starts with (nor matches as
\* provider/name), and a candidate starting with the name minus -latest.
LatestCase ==
  /\ gm.at = "done" /\ gm.available.state = "loaded"
  /\ EndsWith(gm.model, DashLatest)
  /\ \A m \in Names(gm.available.list) :
       ~StartsWith(m, gm.model) /\ ~IsNamespaced(m, gm.model)
  /\ \E m \in Names(gm.available.list) :
       StartsWith(m, DropLast(gm.model, Len(DashLatest)))

\* C7: in that case getModel returns, among the available names starting with
\* the requested name minus -latest, the first of the descending sort.
LatestIsNewest ==
  LatestCase =>
     /\ gm.result.ok
     /\ gm.result.model =
          FirstDescending({ m \in Names(gm.available.list) :
                              StartsWith(m, DropLast(gm.model, Len(DashLatest))) })


(***************************************************************************)
\* C17: getModel applies its steps in a fixed order and stops at the first
\* that matches: the requested name itself when it is available, even when
\* provider/name or prefix candidates exist; else, for a name without "/",
\* an available provider/name; else an available name starting with it; else
\* an available name starting with it minus -latest; else one starting with
\* it minus -exp...; else ModelNotFoundError. A missing model is a
\* ModelNotFoundError, and a provider without a list returns the name as is.
GetModelPrecedence ==
  gm.at = "done" =>
    LET m   == gm.model
        r   == gm.result
        A   == IF gm.available.state = "loaded" THEN Names(gm.available.list) ELSE {}
        ns  == { a \in A : \E k \in 1..Len(a) :
                   /\ a[k] = "/"
                   /\ SubSeq(a, k + 1, Len(a)) = m
                   /\ \A j \in 1..(k - 1) : a[j] # "/" }
        pre == { a \in A : StartsWith(a, m) }
        lat == IF EndsWith(m, DashLatest)
                 THEN { a \in A : StartsWith(a, DropLast(m, Len(DashLatest))) }
                 ELSE {}
        exp == IF ExpMatch(m).matched
                 THEN { a \in A : StartsWith(a, ExpMatch(m).stem) }
                 ELSE {}
        By(how, S) == r.ok /\ r.how = how /\ r.model \in S
    IN
    /\ m = << >> => ~r.ok /\ r.error.cls = "ModelNotFoundError"
    /\ (m # << >> /\ gm.available.state = "none") => r.ok /\ r.model = m
    /\ (m # << >> /\ gm.available.state = "loaded") =>
         IF m \in A THEN By("exact", {m})
         ELSE IF (\A i \in 1..Len(m) : m[i] # "/") /\ ns # {} THEN By("namespace", ns)
         ELSE IF pre # {} THEN By("prefix", pre)
         ELSE IF lat # {} THEN By("latest", lat)
         ELSE IF exp # {} THEN By("exp", exp)
         ELSE ~r.ok /\ r.error.cls = "ModelNotFoundError"

\* The second step before the third: a name without "/" that is not
\* available was resolved to an available provider/name although an
\* available name starts with it.
NamespaceBeforePrefix ==
  /\ gm.at = "done" /\ gm.available.state = "loaded"
  /\ gm.model \notin Names(gm.available.list)
  /\ \E a \in Names(gm.available.list) : StartsWith(a, gm.model)
  /\ gm.result.ok /\ IsNamespaced(gm.result.model, gm.model)

\* C17 witness: an available name was requested while an available
\* provider/name and another available name starting with it exist, and it
\* was returned as is.
ExactBeforeCandidates ==
  /\ gm.at = "done" /\ gm.available.state = "loaded"
  /\ gm.model \in Names(gm.available.list)
  /\ \E a \in Names(gm.available.list) : IsNamespaced(a, gm.model)
  /\ \E a \in Names(gm.available.list) : a # gm.model /\ StartsWith(a, gm.model)
  /\ gm.result = Returned(gm.model, "exact")

(* The Google providers' executePrompt (base.ts 470-672 and 784-967)       *)
(***************************************************************************)

Gemini20 == << "g", "e", "m", "i", "n", "i", "-", "2", ".", "0", "-" >>
GeminiFlash == Gemini20 \o << "f", "l", "a", "s", "h" >>
GeminiProExp == Gemini20 \o << "p", "r", "o" >> \o DashExp
GeminiProExp0205 == GeminiProExp \o << "-", "0", "2", "-", "0", "5" >>

\* The limits of handleLargeTokenCount.
SwitchAbove == 800000
TooLargeFrom == 2000000

TooLargeMessage == << "Repository content is too large for Vertex AI API" >>

\* Faulty variant of VertexHandleLargeTokenCount: exactly 2,000,000 tokens pass.
VertexHandleLargeTokenCountStrict(tokenCount) ==
  IF tokenCount > SwitchAbove /\ tokenCount < TooLargeFrom
    THEN [model |-> GeminiProExp0205, error |-> << >>]
  ELSE IF tokenCount > TooLargeFrom
    THEN [model |-> << >>, error |-> TooLargeMessage]
  ELSE [model |-> << >>, error |-> << >>]

\* GoogleVertexAIProvider.handleLargeTokenCount; << >> is an absent field.
VertexHandleLargeTokenCount(tokenCount) ==
  IF tokenCount > SwitchAbove /\ tokenCount < TooLargeFrom
    THEN [model |-> GeminiProExp0205, error |-> << >>]
  ELSE IF tokenCount >= TooLargeFrom
    THEN [model |-> << >>, error |-> TooLargeMessage]
  ELSE [model |-> << >>, error |-> << >>]

\* GoogleGenerativeLanguageProvider.handleLargeTokenCount
GenLangHandleLargeTokenCount(tokenCount) ==
  IF tokenCount > SwitchAbove /\ tokenCount < TooLargeFrom
    THEN [model |-> GeminiProExp, error |-> << >>]
  ELSE IF tokenCount >= TooLargeFrom
    THEN [model |-> << >>, error |-> TooLargeMessage]
  ELSE [model |-> << >>, error |-> << >>]

\* What executePrompt has decided when it reaches retryWithBackoff, or the
\* error it threw before: the model of the request URL, the options after the
\* token handling, and the model it announced switching to (<< >> for none).
Prepared(urlModel, options, announced) ==
  [ok |-> TRUE, urlModel |-> urlModel, options |-> options, announced |-> announced]

\* The `if (options?.tokenCount)` block: 0 stands for an absent tokenCount.
TokenHandling(options, handled) ==
  IF options.tokenCount = 0 THEN [error |-> << >>, options |-> options, announced |-> << >>]
  ELSE IF handled.error # << >>
    THEN [error |-> handled.error, options |-> options, announced |-> << >>]
  ELSE IF handled.model # << >>
    THEN [error |-> << >>, options |-> [options EXCEPT !.model = handled.model],
          announced |-> handled.model]
  ELSE [error |-> << >>, options |-> options, announced |-> << >>]

\* GoogleVertexAIProvider.executePrompt, lines 471-507: the model is resolved
\* first, the token handling follows, the URL is built from the model.
VertexPrepare(options, available) ==
  LET resolved == GetModel(options.model, available)
      handling == TokenHandling(options, VertexHandleLargeTokenCount(options.tokenCount))
  IN IF ~resolved.ok THEN resolved
     ELSE IF handling.error # << >> THEN [ok |-> FALSE, error |-> ProviderError(handling.error)]
     ELSE IF available.state = "none"
       THEN Threw("Error", <<"Models not initialized">>)
     ELSE IF resolved.model \notin { available.list[i] : i \in 1..Len(available.list) }
       THEN Threw("ModelNotFoundError", <<"not found in Vertex AI">>)
     ELSE Prepared(resolved.model, handling.options, handling.announced)

\* Faulty variant of GenLangPrepare: the model is resolved before the token handling,
\* as in the Vertex provider.
GenLangPrepareResolveFirst(options, available) ==
  LET resolved == GetModel(options.model, available)
      handling == TokenHandling(options, GenLangHandleLargeTokenCount(options.tokenCount))
  IN IF handling.error # << >> THEN [ok |-> FALSE, error |-> ProviderError(handling.error)]
     ELSE IF ~resolved.ok THEN resolved
     ELSE Prepared(resolved.model, handling.options, handling.announced)

\* GoogleGenerativeLanguageProvider.executePrompt, lines 785-803: the token
\* handling comes first, the model is resolved from the options it leaves.
GenLangPrepare(options, available) ==
  LET handling == TokenHandling(options, GenLangHandleLargeTokenCount(options.tokenCount))
      resolved == GetModel(handling.options.model, available)
  IN IF handling.error # << >> THEN [ok |-> FALSE, error |-> ProviderError(handling.error)]
     ELSE IF ~resolved.ok THEN resolved
     ELSE Prepared(resolved.model, handling.options, handling.announced)

ApiName(provider) ==
  IF provider = "vertex" THEN "Google Vertex AI" ELSE "Google Generative Language"

\* The answers to one generateContent request: a response with a status and
\* a body (for status 200 the text of the first candidate, << >> when it has
\* none), or fetch rejecting.
Responses ==
  { [status |-> "200", body |-> <<"answer">>],
    [status |-> "200", body |-> << >>],
    [status |-> "429", body |-> <<"Quota", " ", "exceeded">>],
    [status |-> "500", body |-> <<"RESOURCE", " ", "EXHAUSTED">>],
    [status |-> "500", body |-> <<"Internal", " ", "error">>],
    [status |-> "fetch failed", body |-> << >>] }

\* What the try block of the operation throws or returns for a response
\* (lines 555-630, 845-922), before the catch.
TryBlock(provider, resp) ==
  IF resp.status = "fetch failed"
    THEN [ok |-> FALSE, error |-> [cls |-> "TypeError", msg |-> <<"fetch failed">>]]
  ELSE IF resp.status # "200"
    THEN [ok |-> FALSE,
          error |-> NetworkError(<<ApiName(provider), " API error (", resp.status, "): ">>
                                   \o resp.body)]
  ELSE IF resp.body = << >>
    THEN [ok |-> FALSE,
          error |-> ProviderError(<<ApiName(provider), " returned an empty response">>)]
  ELSE [ok |-> TRUE, value |-> resp.body]

\* The operation passed to retryWithBackoff: the try block and its catch
\* (lines 631-636, 923-931).
GoogleOperation(provider, resp, netIsProvider) ==
  LET tried == TryBlock(provider, resp)
  IN IF tried.ok \/ IsProviderError(tried.error, netIsProvider) THEN tried
     ELSE [ok |-> FALSE,
           error |-> NetworkError(<<"Failed to communicate with ", ApiName(provider), " API">>)]

\* The shouldRetry callback of lines 640-646 and 935-941.
GoogleShouldRetry(error) ==
  /\ error.cls = "NetworkError"
  /\ \/ Includes(LowerMessage(error.msg), <<"429">>)
     \/ Includes(LowerMessage(error.msg), <<"resource", " ", "exhausted">>)


(***************************************************************************)
(* Specification of one executePrompt call on a Google provider            *)
(***************************************************************************)

\* Largest number of models in a Google provider's available list.
MaxGoogleModels == 2

GoogleUniverse == { GeminiFlash, GeminiProExp, GeminiProExp0205 }

GoogleRequested == { << >>, GeminiFlash, GeminiProExp, GeminiProExp0205 }

\* Values of options.tokenCount; 0 is an absent count.
TokenCounts ==
  { 0, SwitchAbove, SwitchAbove + 1, TooLargeFrom - 1, TooLargeFrom, TooLargeFrom + 1 }

\* The constructor's promise: rejected when initializeModels failed.
GoogleAvailable ==
  { Rejected } \cup { Loaded(l) : l \in DistinctSeqs(GoogleUniverse, MaxGoogleModels) }

InitGoogle ==
  /\ \E provider \in {"vertex", "genlang"},
        model \in GoogleRequested,
        tokenCount \in TokenCounts,
        available \in GoogleAvailable,
        netIsProvider \in BOOLEAN :
       gp = [ provider      |-> provider,
              options       |-> [model |-> model, tokenCount |-> tokenCount],
              requested     |-> model,
              available     |-> available,
              netIsProvider |-> netIsProvider,
              at            |-> "start",  \* start, retrying, failed
              urlModel      |-> << >>,
              announced     |-> << >>,
              requests      |-> << >>,    \* the model of each request sent
              error         |-> Idle ]
  /\ retry = Idle /\ gm = Idle /\ cite = Idle /\ cred = Idle /\ env = Idle
  /\ px = Idle /\ wk = Idle /\ inst = Idle

\* executePrompt up to its call of retryWithBackoff(..., 5, 1000, ...).
GoogleBegin ==
  /\ gp.at = "start"
  /\ LET prep == IF gp.provider = "vertex"
                   THEN VertexPrepare(gp.options, gp.available)
                   ELSE GenLangPrepare(gp.options, gp.available)
     IN IF prep.ok
          THEN /\ gp' = [gp EXCEPT !.at = "retrying", !.urlModel = prep.urlModel,
                                   !.options = prep.options,
                                   !.announced = prep.announced]
               /\ retry' = RetryStart(DefaultMaxAttempts, DefaultBaseDelay)
          ELSE /\ gp' = [gp EXCEPT !.at = "failed", !.error = prep.error]
               /\ UNCHANGED retry
  /\ UNCHANGED <<gm, cite, cred, env, px, wk, inst>>

\* One invocation of the operation: the request goes to the URL built from
\* urlModel and is answered.
GoogleAttempt ==
  /\ gp.at = "retrying"
  /\ \E resp \in Responses :
       /\ RetryInvoke(GoogleOperation(gp.provider, resp, gp.netIsProvider))
       /\ gp' = [gp EXCEPT !.requests =
                    Append(@, [model |-> gp.urlModel, status |-> resp.status])]
  /\ UNCHANGED <<gm, cite, cred, env, px, wk, inst>>

GoogleCatch ==
  /\ gp.at = "retrying"
  /\ retry.at = "caught"
  /\ RetryCatch(GoogleShouldRetry(retry.caught))
  /\ UNCHANGED <<gp, gm, cite, cred, env, px, wk, inst>>

GoogleWake ==
  /\ gp.at = "retrying"
  /\ RetryWake
  /\ UNCHANGED <<gp, gm, cite, cred, env, px, wk, inst>>

NextGoogle == GoogleBegin \/ GoogleAttempt \/ GoogleCatch \/ GoogleWake

SpecGoogle == InitGoogle /\ [][NextGoogle]_vars

\* options.tokenCount is strictly between 800,000 and 2,000,000.
InSwitchRange == gp.options.tokenCount > SwitchAbove /\ gp.options.tokenCount < TooLargeFrom

\* C3: a Vertex call with a token count in the switch range sends every
\* generateContent request to gemini-2.0-pro-exp-02-05, the model it
\* announces, whatever model was requested.
VertexSendsToAnnounced ==
  (gp.provider = "vertex" /\ InSwitchRange) =>
     \A i \in 1..Len(gp.requests) : gp.requests[i].model = GeminiProExp0205

\* C4: a Generative Language call with a token count in the switch range
\* resolves gemini-2.0-pro-exp, not the requested model: the URL model is
\* getModel('gemini-2.0-pro-exp'), and when that resolution throws the call
\* fails with its error and sends nothing.
GenLangResolvesSwitched ==
  (gp.provider = "genlang" /\ InSwitchRange /\ gp.at # "start") =>
     LET resolved == GetModel(GeminiProExp, gp.available)
     IN /\ resolved.ok =>
             /\ gp.at = "retrying" /\ gp.urlModel = resolved.model
             /\ \A i \in 1..Len(gp.requests) : gp.requests[i].model = resolved.model
        /\ ~resolved.ok =>
             gp.at = "failed" /\ gp.error = resolved.error /\ gp.requests = << >>

\* C4 witness: a request went to gemini-2.0-pro-exp-02-05, found by prefix
\* from the switched name, while gemini-2.0-flash was requested and available.
GenLangSwitchedRequest ==
  /\ gp.provider = "genlang" /\ InSwitchRange
  /\ gp.requested = GeminiFlash
  /\ gp.available = Loaded(<<GeminiFlash, GeminiProExp0205>>)
  /\ Len(gp.requests) >= 1 /\ gp.requests[1].model = GeminiProExp0205

\* C5: on both providers a call with tokenCount >= 2,000,000 for a requested
\* model of the available set fails with the 'too large' ProviderError and
\* sends no generateContent request.
TooLargeRejected ==
  ( /\ gp.options.tokenCount >= TooLargeFrom
    /\ gp.available.state = "loaded"
    /\ gp.requested \in Names(gp.available.list) ) =>
     /\ gp.requests = << >>
     /\ gp.at \in {"start", "failed"}
     /\ gp.at = "failed" => gp.error = ProviderError(TooLargeMessage)

\* C5 witness: a Vertex call with exactly 2,000,000 tokens has failed.
TooLargeVertexFailed ==
  /\ gp.provider = "vertex" /\ gp.at = "failed"
  /\ gp.options.tokenCount = TooLargeFrom
  /\ gp.available.state = "loaded"
  /\ gp.requested \in Names(gp.available.list)


(***************************************************************************)
(* Citation formatting (base.ts 569-630 and 861-922, the same code in both *)
(* Google providers). A text is a sequence of pieces; the pieces of a      *)
(* marker [n] are "[", the decimal digits of n, "]".                       *)
(***************************************************************************)

DecimalDigits == << "0", "1", "2", "3", "4", "5", "6", "7", "8", "9" >>

\* `${n}` for 0 <= n <= 9
NumberText(n) == DecimalDigits[n + 1]

\* The number a piece written by NumberText denotes, -1 for any other piece.
ParseNumber(piece) ==
  IF \E n \in 0..9 : DecimalDigits[n + 1] = piece
    THEN CHOOSE n \in 0..9 : DecimalDigits[n + 1] = piece
    ELSE -1

\* citationSources after the forEach of lines 588-595: the zero-based
\* indices of the chunks that have a web field.
CitationSources(chunks) == { i \in 0..(Len(chunks) - 1) : chunks[i + 1].web }

\* Faulty variant of MarkerFor: the marker shows the zero-based index.
MarkerForZeroBased(idx, sources) ==
  IF idx \in sources THEN << "[", NumberText(idx), "]" >> ELSE << >>

\* The map callback of lines 602-605: `[${idx + 1}]` or ''.
MarkerFor(idx, sources) ==
  IF idx \in sources THEN << "[", NumberText(idx + 1), "]" >> ELSE << >>

\* indices.map(...).filter(Boolean).join('')
RECURSIVE MarkersOf(_, _)
MarkersOf(indices, sources) ==
  IF indices = << >> THEN << >>
  ELSE MarkerFor(indices[1], sources) \o MarkersOf(Tail(indices), sources)

\* What one support adds to formattedText (line 609).
SupportText(support, sources) ==
  LET citations == MarkersOf(support.indices, sources)
  IN support.text \o (IF citations # << >> THEN << " " >> \o citations ELSE << >>) \o << " " >>

RECURSIVE SupportsText(_, _)
SupportsText(supports, sources) ==
  IF supports = << >> THEN << >>
  ELSE SupportText(supports[1], sources) \o SupportsText(Tail(supports), sources)

\* One line of the citations list (line 616).
CitationLine(idx, chunk) ==
  << "[", NumberText(idx + 1), "]", ": ", chunk.uri >>
    \o (IF chunk.title # << >> THEN << " " >> \o chunk.title ELSE << >>)
    \o << "\n" >>

\* citationSources.forEach(...): the lines of chunks k.. in index order.
RECURSIVE CitationLines(_, _)
CitationLines(chunks, k) ==
  IF k > Len(chunks) THEN << >>
  ELSE (IF chunks[k].web THEN CitationLine(k - 1, chunks[k]) ELSE << >>)
         \o CitationLines(chunks, k + 1)

\* webSearchText (lines 573-580)
RECURSIVE QueryLines(_)
QueryLines(queries) ==
  IF queries = << >> THEN << >>
  ELSE << "- ", queries[1], "\n" >> \o QueryLines(Tail(queries))

WebSearchText(queries) ==
  IF queries # << >>
    THEN << "\n", "Web search queries:", "\n" >> \o QueryLines(queries) \o << "\n" >>
    ELSE << >>

IsSpace(piece) == piece \in { " ", "\n" }

\* text.trim()
RECURSIVE TrimStart(_)
TrimStart(text) ==
  IF text # << >> /\ IsSpace(text[1]) THEN TrimStart(Tail(text)) ELSE text

RECURSIVE TrimEnd(_)
TrimEnd(text) ==
  IF text # << >> /\ IsSpace(text[Len(text)]) THEN TrimEnd(DropLast(text, 1)) ELSE text

Trim(text) == TrimEnd(TrimStart(text))

\* The grounding metadata is used (lines 584, 876).
HasGrounding(g) == Len(g.supports) > 0 /\ Len(g.chunks) > 0

\* Lines 583-630: the text the operation returns for a response with the
\* given content and grounding metadata, or the ProviderError it throws.
FormatResponse(content, g) ==
  LET sources   == CitationSources(g.chunks)
      segments  == SupportsText(g.supports, sources)
      formatted ==
        IF sources # {}
          THEN << "\n", "Citations:", "\n" >> \o CitationLines(g.chunks, 1) \o << "\n" >>
                 \o WebSearchText(g.queries) \o segments
          ELSE WebSearchText(g.queries) \o segments
      text      == IF HasGrounding(g) THEN Trim(formatted) ELSE content
  IN IF text = << >>
       THEN [ok |-> FALSE, error |-> ProviderError(<<"returned an empty response">>)]
       ELSE [ok |-> TRUE, value |-> text]

(***************************************************************************)
(* Specification of the formatting of one response                         *)
(***************************************************************************)

\* Largest numbers of grounding chunks and of grounding supports.
MaxChunks == 2
MaxSupports == 1

\* A chunk without a web source, with one without a title, with one titled.
Chunks ==
  { [web |-> FALSE, uri |-> "", title |-> << >>],
    [web |-> TRUE, uri |-> "https://a", title |-> << >>],
    [web |-> TRUE, uri |-> "https://b", title |-> << "B" >>] }

\* The sequences over S of length at most n.
SeqsUpTo(S, n) == UNION { [1..k -> S] : k \in 0..n }

\* groundingChunkIndices: up to two indices, the first one past the chunks
\* included.
IndexLists(nChunks) ==
  { << >> } \cup { <<i>> : i \in 0..nChunks }
            \cup { <<i, j>> : i \in 0..nChunks, j \in 0..nChunks }

SupportsFor(nChunks) ==
  SeqsUpTo({ [text |-> t, indices |-> ix] :
               t \in { << "segment" >>, << >> }, ix \in IndexLists(nChunks) },
           MaxSupports)

InitCite ==
  /\ \E chunks \in SeqsUpTo(Chunks, MaxChunks),
        queries \in { << >>, << "query" >> },
        content \in { << "answer" >>, << >> } :
       \E supports \in SupportsFor(Len(chunks)) :
         cite = [ content   |-> content,
                  grounding |-> [chunks |-> chunks, supports |-> supports,
                                 queries |-> queries],
                  at        |-> "response",
                  result    |-> Idle ]
  /\ retry = Idle /\ gp = Idle /\ gm = Idle /\ cred = Idle /\ env = Idle
  /\ px = Idle /\ wk = Idle /\ inst = Idle

\* The operation from `const content` to its return or throw.
FormatStep ==
  /\ cite.at = "response"
  /\ cite' = [cite EXCEPT !.at = "done",
                          !.result = FormatResponse(cite.content, cite.grounding)]
  /\ UNCHANGED <<retry, gp, gm, cred, env, px, wk, inst>>

NextCite == FormatStep

SpecCite == InitCite /\ [][NextCite]_vars

\* The positions of a text where "[", a number, "]" stand.
BracketPositions(text) ==
  { i \in 1..(Len(text) - 2) :
      text[i] = "[" /\ ParseNumber(text[i + 1]) >= 0 /\ text[i + 2] = "]" }

\* Those followed by ": " head a line of the citations list; the others are
\* markers.
EntryPositions(text) ==
  { i \in BracketPositions(text) : i + 4 <= Len(text) /\ text[i + 3] = ": " }

MarkerPositions(text) == BracketPositions(text) \ EntryPositions(text)

\* C8: in the text returned for a response with grounding supports and
\* chunks, every marker [n] names a chunk n-1 that has a web source, every
\* chunk with a web source has exactly one line '[n]: uri' in the list, and
\* a chunk without one has neither a marker nor a line.
CitationsConsistent ==
  (cite.at = "done" /\ HasGrounding(cite.grounding) /\ cite.result.ok) =>
     LET text   == cite.result.value
         chunks == cite.grounding.chunks
         n(i)   == ParseNumber(text[i + 1])
     IN /\ \A i \in MarkerPositions(text) :
             n(i) \in 1..Len(chunks) /\ chunks[n(i)].web
        /\ \A i \in EntryPositions(text) :
             /\ n(i) \in 1..Len(chunks) /\ chunks[n(i)].web
             /\ text[i + 4] = chunks[n(i)].uri
        /\ \A k \in 1..Len(chunks) :
             chunks[k].web =>
               Cardinality({ i \in EntryPositions(text) : n(i) = k }) = 1
        /\ (EntryPositions(text) # {}) =>
             \E j \in 1..Len(text) : text[j] = "Citations:" /\
                \A i \in EntryPositions(text) : j < i

\* C8 witness: two chunks, the first without a web source; the support cites
\* both and the text carries the marker [2] and the line of chunk 2 only.
CitedSecondChunk ==
  /\ cite.at = "done" /\ cite.result.ok
  /\ Len(cite.grounding.chunks) = 2
  /\ ~cite.grounding.chunks[1].web /\ cite.grounding.chunks[2].web
  /\ Len(cite.grounding.supports) = 1
  /\ cite.grounding.supports[1].indices = <<0, 1>>
  /\ Cardinality(MarkerPositions(cite.result.value)) = 1
  /\ Cardinality(EntryPositions(cite.result.value)) = 1


(***************************************************************************)
(* Letter case (String.prototype.toLowerCase and toUpperCase)              *)
(***************************************************************************)

UpperLetters ==
  << "A", "B", "C", "D", "E", "F", "G", "H", "I", "J", "K", "L", "M",
     "N", "O", "P", "Q", "R", "S", "T", "U", "V", "W", "X", "Y", "Z" >>
LowerLetters ==
  << "a", "b", "c", "d", "e", "f", "g", "h", "i", "j", "k", "l", "m",
     "n", "o", "p", "q", "r", "s", "t", "u", "v", "w", "x", "y", "z" >>

LowerChar(c) ==
  IF \E i \in 1..Len(UpperLetters) : UpperLetters[i] = c
    THEN LowerLetters[CHOOSE i \in 1..Len(UpperLetters) : UpperLetters[i] = c]
    ELSE c

UpperChar(c) ==
  IF \E i \in 1..Len(LowerLetters) : LowerLetters[i] = c
    THEN UpperLetters[CHOOSE i \in 1..Len(LowerLetters) : LowerLetters[i] = c]
    ELSE c

ToLowerCase(s) == [i \in 1..Len(s) |-> LowerChar(s[i])]
ToUpperCase(s) == [i \in 1..Len(s) |-> UpperChar(s[i])]

(***************************************************************************)
(* createProvider and the Google providers' credential checks              *)
(* (base.ts 1560-1596, 674-703, 748-762)                                   *)
(***************************************************************************)

DotJson == << ".", "j", "s", "o", "n" >>
Adc == << "a", "d", "c" >>

\* Faulty variant of RoutedToVertex: 'adc' is compared without toLowerCase.
RoutedToVertexCaseSensitive(apiKey) ==
  EndsWith(apiKey, DotJson) \/ apiKey = Adc

\* The condition of line 1571.
RoutedToVertex(apiKey) ==
  EndsWith(apiKey, DotJson) \/ ToLowerCase(apiKey) = Adc

\* The providers other than 'gemini' and the variable each constructor
\* requires ("" for PerplexityProvider, whose constructor requires none).
KeyOf(provider) ==
  CASE provider = "openai" -> "OPENAI_API_KEY"
    [] provider = "openrouter" -> "OPENROUTER_API_KEY"
    [] provider = "modelbox" -> "MODELBOX_API_KEY"
    [] provider = "anthropic" -> "ANTHROPIC_API_KEY"
    [] provider = "perplexity" -> ""

ErrorOf(cls, detail) == [cls |-> cls, msg |-> detail]

\* createProvider(provider): the class of the provider returned, or the
\* error thrown. geminiKey is process.env.GEMINI_API_KEY (<< >> when it is
\* unset or empty), present the set of the other variables that are set.
CreateProvider(provider, geminiKey, present) ==
  IF provider = "gemini"
    THEN IF geminiKey = << >>
           THEN [ok |-> FALSE, error |-> ErrorOf("ApiKeyMissingError", <<"Gemini">>)]
         ELSE IF RoutedToVertex(geminiKey)
           THEN [ok |-> TRUE, class |-> "GoogleVertexAIProvider"]
         ELSE [ok |-> TRUE, class |-> "GoogleGenerativeLanguageProvider"]
  ELSE IF KeyOf(provider) # "" /\ KeyOf(provider) \notin present
    THEN [ok |-> FALSE, error |-> ErrorOf("ApiKeyMissingError", <<provider>>)]
  ELSE [ok |-> TRUE, class |-> provider]

\* GoogleVertexAIProvider.getAuthClient: the kind of client, or the error.
GetAuthClient(apiKey, fileExists) ==
  IF apiKey = << >>
    THEN [ok |-> FALSE, error |-> ErrorOf("ApiKeyMissingError", <<"Google Vertex AI">>)]
  ELSE IF EndsWith(apiKey, DotJson)
    THEN IF ~fileExists
           THEN [ok |-> FALSE, error |-> ErrorOf("Error", <<"JSON key file not found">>)]
           ELSE [ok |-> TRUE, credential |-> "keyFile"]
  ELSE IF ToLowerCase(apiKey) = Adc
    THEN [ok |-> TRUE, credential |-> "adc"]
  ELSE [ok |-> FALSE,
        error |-> ErrorOf("Error", <<"requires service account authentication">>)]

\* GoogleGenerativeLanguageProvider.getAPIKey
GetAPIKey(apiKey) ==
  IF apiKey = << >>
    THEN [ok |-> FALSE,
          error |-> ErrorOf("ApiKeyMissingError", <<"Google Generative Language">>)]
  ELSE IF EndsWith(apiKey, DotJson) \/ ToLowerCase(apiKey) = Adc
    THEN [ok |-> FALSE,
          error |-> ErrorOf("Error", <<"Service account authentication is not supported">>)]
  ELSE [ok |-> TRUE, credential |-> "apiKey"]

(***************************************************************************)
(* Specification of createProvider followed by the provider's first        *)
(* credential check (initializeModels, started by the constructor)         *)
(***************************************************************************)

\* Values of GEMINI_API_KEY; << >> is unset or empty.
GeminiKeys ==
  { << >>, Adc, << "A", "D", "C" >>, << "A", "d", "c" >>, << "a", "d", "c", "x" >>,
    << "k" >> \o DotJson, DotJson, << "k", ".", "J", "S", "O", "N" >>,
    << "j", "s", "o", "n" >>, << "k", "e", "y" >>, << "k" >> \o DotJson \o << "x" >> }

ProviderNames ==
  { "gemini", "openai", "openrouter", "perplexity", "modelbox", "anthropic" }

InitCred ==
  /\ \E provider \in ProviderNames, key \in GeminiKeys, fileExists \in BOOLEAN,
        present \in { {}, { KeyOf(p) : p \in ProviderNames \ {"gemini", "perplexity"} } } :
       cred = [ provider   |-> provider,
                geminiKey  |-> key,
                present    |-> present,
                fileExists |-> fileExists,
                at         |-> "start",    \* start, created, failed, checked
                created    |-> Idle,
                check      |-> Idle ]
  /\ retry = Idle /\ gp = Idle /\ gm = Idle /\ cite = Idle /\ env = Idle
  /\ px = Idle /\ wk = Idle /\ inst = Idle

CreateStep ==
  /\ cred.at = "start"
  /\ LET r == CreateProvider(cred.provider, cred.geminiKey, cred.present)
     IN cred' = [cred EXCEPT !.created = r,
                             !.at = IF r.ok THEN "created" ELSE "failed"]
  /\ UNCHANGED <<retry, gp, gm, cite, env, px, wk, inst>>

\* initializeModels of a Google provider reads the credential.
CredentialStep ==
  /\ cred.at = "created"
  /\ cred.created.class \in {"GoogleVertexAIProvider", "GoogleGenerativeLanguageProvider"}
  /\ cred' = [cred EXCEPT !.at = "checked",
                !.check = IF cred.created.class = "GoogleVertexAIProvider"
                            THEN GetAuthClient(cred.geminiKey, cred.fileExists)
                            ELSE GetAPIKey(cred.geminiKey)]
  /\ UNCHANGED <<retry, gp, gm, cite, env, px, wk, inst>>

NextCred == CreateStep \/ CredentialStep

SpecCred == InitCred /\ [][NextCred]_vars

\* The claim's own reading of the routing rule: the value ends in '.json', or
\* is one of the eight spellings of 'adc'.
IsServiceCredential(key) ==
  \/ Len(key) >= 5 /\ SubSeq(key, Len(key) - 4, Len(key)) = DotJson
  \/ /\ Len(key) = 3
     /\ key[1] \in {"a", "A"} /\ key[2] \in {"d", "D"} /\ key[3] \in {"c", "C"}

\* C9: createProvider('gemini') throws ApiKeyMissingError without a key,
\* returns the Vertex provider for a '.json' or 'adc' value and the Generative
\* Language provider for any other; the provider's own check never rejects
\* the value as the wrong kind of credential, and each check accepts the kind
\* of exactly the values routed to its provider.
GeminiRoutingConsistent ==
  /\ (cred.provider = "gemini" /\ cred.at # "start") =>
        /\ cred.geminiKey = << >> =>
             ~cred.created.ok /\ cred.created.error.cls = "ApiKeyMissingError"
        /\ (cred.geminiKey # << >> /\ IsServiceCredential(cred.geminiKey)) =>
             cred.created.ok /\ cred.created.class = "GoogleVertexAIProvider"
        /\ (cred.geminiKey # << >> /\ ~IsServiceCredential(cred.geminiKey)) =>
             cred.created.ok /\ cred.created.class = "GoogleGenerativeLanguageProvider"
  /\ (cred.provider = "gemini" /\ cred.at = "checked") =>
        \/ cred.check.ok
        \/ /\ cred.created.class = "GoogleVertexAIProvider"
           /\ cred.check.error.msg = <<"JSON key file not found">>
  /\ \A key \in GeminiKeys \ { << >> } :
        LET routed == CreateProvider("gemini", key, {}).class
        IN /\ GetAuthClient(key, TRUE).ok <=> routed = "GoogleVertexAIProvider"
           /\ GetAPIKey(key).ok <=> routed = "GoogleGenerativeLanguageProvider"

\* C9 witness: GEMINI_API_KEY=ADC was routed to Vertex AI and accepted there
\* as Application Default Credentials.
UpperAdcAccepted ==
  /\ cred.provider = "gemini" /\ cred.at = "checked"
  /\ cred.geminiKey = << "A", "D", "C" >>
  /\ cred.created.class = "GoogleVertexAIProvider"
  /\ cred.check.ok /\ cred.check.credential = "adc"


(***************************************************************************)
(* MCPClientNew.processQuery and printSafeEnvVars (MCPClientNew.ts 76-111) *)
(* An environment is the sequence of its [name, value] entries in the      *)
(* order of Object.keys(process.env); a name is a sequence of characters.  *)
(***************************************************************************)

WordKey == << "K", "E", "Y" >>
WordToken == << "T", "O", "K", "E", "N" >>
WordSecret == << "S", "E", "C", "R", "E", "T" >>
WordPassword == << "P", "A", "S", "S", "W", "O", "R", "D" >>

\* Faulty variant of IsSafeName: the name is tested without toUpperCase.
IsSafeNameCaseSensitive(envVar) ==
  /\ ~Includes(envVar, WordKey)
  /\ ~Includes(envVar, WordToken)
  /\ ~Includes(envVar, WordSecret)
  /\ ~Includes(envVar, WordPassword)

\* The filter callback of lines 103-107.
IsSafeName(envVar) ==
  /\ ~Includes(ToUpperCase(envVar), WordKey)
  /\ ~Includes(ToUpperCase(envVar), WordToken)
  /\ ~Includes(ToUpperCase(envVar), WordSecret)
  /\ ~Includes(ToUpperCase(envVar), WordPassword)

\* keys.filter(...).map(envVar => `${envVar}=${process.env[envVar]}`): the
\* lines of the listing, each the name, "=", the value.
RECURSIVE SafeLines(_)
SafeLines(environment) ==
  IF environment = << >> THEN << >>
  ELSE (IF IsSafeName(environment[1].name)
          THEN << environment[1].name \o << "=" >> \o environment[1].value >>
          ELSE << >>)
         \o SafeLines(Tail(environment))

\* lines.join('\n')
RECURSIVE JoinLines(_)
JoinLines(lines) ==
  IF lines = << >> THEN << >>
  ELSE IF Len(lines) = 1 THEN lines[1]
  ELSE lines[1] \o << "\n" >> \o JoinLines(Tail(lines))

PrintSafeEnvVars(environment) == JoinLines(SafeLines(environment))

\* `Available variables ${envVars}\n\n${query}`
EnhancedQuery(environment, query) ==
  << "Available variables " >> \o PrintSafeEnvVars(environment)
    \o << "\n", "\n" >> \o query

(***************************************************************************)
(* Specification of processQuery run on two environments with the same     *)
(* variables in the same order and the same query                          *)
(***************************************************************************)

\* Largest number of variables in the environment.
MaxEnvVars == 2

EnvNames ==
  { << "P", "A", "T", "H" >>,
    << "K", "E" >>,
    << "A", "P", "I", "_", "K", "E", "Y" >>,
    << "m", "y", "T", "o", "k", "e", "n" >>,
    << "s", "e", "c", "r", "e", "t", "s" >>,
    << "P", "a", "s", "s", "w", "o", "r", "d" >>,
    << "P", "A", "S", "S" >> }

EnvValues == { << "1" >>, << "x", "y" >> }

\* The claim's reading of "includes KEY, TOKEN, SECRET or PASSWORD in any
\* letter case": some stretch of the name spells one of the words, each
\* letter in either case.
SpellsAt(name, k, word) ==
  /\ k + Len(word) <= Len(name)
  /\ \A i \in 1..Len(word) : name[k + i] \in { word[i], LowerChar(word[i]) }

IsSecretName(name) ==
  \E word \in { WordKey, WordToken, WordSecret, WordPassword } :
    \E k \in 0..Len(name) : SpellsAt(name, k, word)

InitEnv ==
  /\ \E names \in DistinctSeqs(EnvNames, MaxEnvVars) :
       \E va \in [1..Len(names) -> EnvValues], vb \in [1..Len(names) -> EnvValues] :
         /\ \A i \in 1..Len(names) : ~IsSecretName(names[i]) => va[i] = vb[i]
         /\ env = [ a      |-> [i \in 1..Len(names) |-> [name |-> names[i], value |-> va[i]]],
                    b      |-> [i \in 1..Len(names) |-> [name |-> names[i], value |-> vb[i]]],
                    query  |-> << "list", " ", "tools" >>,
                    at     |-> "start",
                    sentA  |-> << >>,
                    sentB  |-> << >> ]
  /\ retry = Idle /\ gp = Idle /\ gm = Idle /\ cite = Idle /\ cred = Idle
  /\ px = Idle /\ wk = Idle /\ inst = Idle

\* processQuery up to the call of unifiedClient.processQuery, in each of the
\* two environments.
ProcessQueryStep ==
  /\ env.at = "start"
  /\ env' = [env EXCEPT !.at = "sent",
                        !.sentA = EnhancedQuery(env.a, env.query),
                        !.sentB = EnhancedQuery(env.b, env.query)]
  /\ UNCHANGED <<retry, gp, gm, cite, cred, px, wk, inst>>

NextEnv == ProcessQueryStep

SpecEnv == InitEnv /\ [][NextEnv]_vars

\* C10: the enhanced query lists no variable whose name includes KEY, TOKEN,
\* SECRET or PASSWORD in any letter case, and two environments that differ
\* only in the values of such variables give the same enhanced query.
SecretsNotListed ==
  env.at = "sent" =>
     /\ env.sentA = env.sentB
     /\ \A i \in 1..Len(env.a) :
          IsSecretName(env.a[i].name) <=>
            ~Includes(env.sentA, env.a[i].name \o << "=" >> \o env.a[i].value)

\* C10 witness: the two environments differ in the value of myToken, next to
\* a listed PATH, and the query was sent.
TokenValuesDiffer ==
  /\ env.at = "sent"
  /\ Len(env.a) = 2
  /\ env.a[1].name = << "P", "A", "T", "H" >>
  /\ env.a[2].name = << "m", "y", "T", "o", "k", "e", "n" >>
  /\ env.a[2].value # env.b[2].value
  /\ Includes(env.sentA, << "P", "A", "T", "H", "=" >>)

(***************************************************************************)
(* PerplexityProvider.executePrompt (base.ts 1138-1216)                    *)
(***************************************************************************)

\* The answers to one chat/completions request: a response that is ok with
\* the content of its first choice (<< >> when it has none), a response that
\* is not ok with its text, or fetch rejecting.
PerplexityResponses ==
  { [kind |-> "ok", body |-> <<"answer">>],
    [kind |-> "ok", body |-> << >>],
    [kind |-> "not ok", body |-> <<"429", " ", "Too", " ", "Many", " ", "Requests">>],
    [kind |-> "not ok", body |-> <<"Rate", " ", "limit", " ", "exceeded">>],
    [kind |-> "not ok", body |-> <<"RATE", "_", "LIMIT">>],
    [kind |-> "not ok", body |-> <<"Internal", " ", "error">>],
    [kind |-> "fetch failed", body |-> << >>] }

\* What the try block of the operation returns or throws for a response
\* (lines 1160-1198), before the catch.
PerplexityTry(resp) ==
  IF resp.kind = "fetch failed"
    THEN [ok |-> FALSE, error |-> [cls |-> "TypeError", msg |-> <<"fetch failed">>]]
  ELSE IF resp.kind # "ok"
    THEN [ok |-> FALSE, error |-> NetworkError(<<"Perplexity API error: ">> \o resp.body)]
  ELSE IF resp.body = << >>
    THEN [ok |-> FALSE, error |-> ProviderError(<<"Perplexity returned an empty response">>)]
  ELSE [ok |-> TRUE, value |-> resp.body]

\* The operation passed to retryWithBackoff (lines 1145-1205): getModel, on a
\* provider that keeps no model list, then the try block and its catch.
PerplexityOperation(model, resp, netIsProvider) ==
  LET resolved == GetModel(model, NoList)
      tried    == PerplexityTry(resp)
  IN IF ~resolved.ok THEN [ok |-> FALSE, error |-> resolved.error]
     ELSE IF tried.ok THEN tried
     ELSE IF IsProviderError(tried.error, netIsProvider) \/ tried.error.cls = "NetworkError"
       THEN tried
     ELSE [ok |-> FALSE,
           error |-> NetworkError(<<"Failed to communicate with Perplexity API">>)]

\* Faulty variant of PerplexityShouldRetry: the message is not lower-cased.
PerplexityShouldRetryCaseSensitive(error) ==
  /\ error.cls = "NetworkError"
  /\ \/ Includes(error.msg, <<"429">>)
     \/ Includes(error.msg, <<"rate", " ", "limit">>)

\* The shouldRetry callback of lines 1208-1214.
PerplexityShouldRetry(error) ==
  /\ error.cls = "NetworkError"
  /\ \/ Includes(LowerMessage(error.msg), <<"429">>)
     \/ Includes(LowerMessage(error.msg), <<"rate", " ", "limit">>)

(***************************************************************************)
(* Specification of one PerplexityProvider.executePrompt call              *)
(***************************************************************************)

InitPerplexity ==
  /\ \E apiKey \in { << >>, <<"k">> },
        model \in { << >>, <<"s", "o", "n", "a", "r">> },
        netIsProvider \in BOOLEAN :
       px = [ apiKey        |-> apiKey,   \* process.env.PERPLEXITY_API_KEY
              model         |-> model,    \* options.model
              netIsProvider |-> netIsProvider,
              at            |-> "start",  \* start, retrying, failed
              requests      |-> 0,        \* the number of fetch calls
              error         |-> Idle ]
  /\ retry = Idle /\ gp = Idle /\ gm = Idle /\ cite = Idle /\ cred = Idle
  /\ env = Idle /\ wk = Idle /\ inst = Idle

\* executePrompt up to its call of retryWithBackoff(..., 5, 1000, ...).
PerplexityBegin ==
  /\ px.at = "start"
  /\ IF px.apiKey = << >>
       THEN /\ px' = [px EXCEPT !.at = "failed",
                        !.error = [cls |-> "ApiKeyMissingError", msg |-> <<"Perplexity">>]]
            /\ UNCHANGED retry
       ELSE /\ px' = [px EXCEPT !.at = "retrying"]
            /\ retry' = RetryStart(DefaultMaxAttempts, DefaultBaseDelay)
  /\ UNCHANGED <<gp, gm, cite, cred, env, wk, inst>>

\* One invocation of the operation.
PerplexityAttempt ==
  /\ px.at = "retrying"
  /\ \E resp \in PerplexityResponses :
       /\ RetryInvoke(PerplexityOperation(px.model, resp, px.netIsProvider))
       /\ px' = [px EXCEPT !.requests =
                    IF GetModel(px.model, NoList).ok THEN @ + 1 ELSE @]
  /\ UNCHANGED <<gp, gm, cite, cred, env, wk, inst>>

PerplexityCatch ==
  /\ px.at = "retrying"
  /\ retry.at = "caught"
  /\ RetryCatch(PerplexityShouldRetry(retry.caught))
  /\ UNCHANGED <<gp, gm, cite, cred, env, px, wk, inst>>

PerplexityWake ==
  /\ px.at = "retrying"
  /\ RetryWake
  /\ UNCHANGED <<gp, gm, cite, cred, env, px, wk, inst>>

NextPerplexity ==
  PerplexityBegin \/ PerplexityAttempt \/ PerplexityCatch \/ PerplexityWake

SpecPerplexity == InitPerplexity /\ [][NextPerplexity]_vars

\* The same with the scheduling of the event loop: a pending fetch settles,
\* a catch block runs, a timer fires.
SpecPerplexityFair ==
  /\ SpecPerplexity
  /\ WF_vars(PerplexityAttempt) /\ WF_vars(PerplexityCatch) /\ WF_vars(PerplexityWake)

\* A NetworkError whose message contains 429 or "rate limit" in any letter
\* case.
IsRateLimitFailure(out) ==
  /\ ~out.ok
  /\ out.error.cls = "NetworkError"
  /\ \E i \in 1..Len(out.error.msg) :
       \/ out.error.msg[i] = "429"
       \/ /\ i + 2 <= Len(out.error.msg)
          /\ out.error.msg[i] \in {"rate", "Rate", "RATE"}
          /\ out.error.msg[i + 1] = " "
          /\ out.error.msg[i + 2] \in {"limit", "Limit", "LIMIT"}

\* The state part of C16.
PerplexityRetryRule ==
  LET n == IF px.at = "retrying" THEN Len(retry.outcomes) ELSE 0 IN
  /\ (px.apiKey = << >> /\ px.at # "start") =>
        /\ px.at = "failed" /\ px.error.cls = "ApiKeyMissingError"
        /\ retry = Idle /\ px.requests = 0
  /\ px.at = "failed" => px.apiKey = << >>
  /\ px.at = "retrying" =>
        /\ n <= DefaultMaxAttempts
        /\ \A i \in 1..(n - 1) : IsRateLimitFailure(retry.outcomes[i])
        /\ retry.at = "sleep" =>
             IsRateLimitFailure(retry.outcomes[n]) /\ n < DefaultMaxAttempts
        /\ retry.at = "thrown" =>
             /\ retry.thrown = retry.outcomes[n].error
             /\ n = DefaultMaxAttempts \/ ~IsRateLimitFailure(retry.outcomes[n])
        /\ retry.at = "returned" => retry.outcomes[n].ok

\* C16: executePrompt retries only rate-limit failures. An attempt that fails
\* with a NetworkError whose message contains 429 or "rate limit" (in any
\* case) is followed by another attempt, until one succeeds or 5 were made;
\* an attempt that fails with any other error ends the call with that error;
\* without PERPLEXITY_API_KEY the call ends with ApiKeyMissingError before any
\* attempt.
PerplexityRetriesRateLimits ==
  /\ []PerplexityRetryRule
  /\ \A k \in 1..(DefaultMaxAttempts - 1) :
       (/\ px.at = "retrying" /\ retry.at = "caught"
        /\ Len(retry.outcomes) = k
        /\ IsRateLimitFailure(retry.outcomes[k]))
         ~> (px.at = "retrying" /\ Len(retry.outcomes) = k + 1)

\* C16 witness: the first attempt failed with "Rate limit exceeded", the
\* second with a 429 text, and the third attempt returned the answer.
RateLimitedTwiceThenAnswered ==
  /\ px.at = "retrying" /\ retry.at = "returned"
  /\ Len(retry.outcomes) = 3
  /\ Includes(retry.outcomes[1].error.msg, <<"Rate", " ", "limit">>)
  /\ Includes(retry.outcomes[2].error.msg, <<"429">>)
  /\ px.requests = 3

(***************************************************************************)
(* writeKeysToFile (install.ts 124-199). The content of a file is the list *)
(* content.split('\n') of its lines, each a sequence of characters; an     *)
(* object of environment variables is the sequence of its [key, value]     *)
(* entries in insertion order.                                             *)
(***************************************************************************)

\* The number of backslashes that end at position j of line (lines 140-143).
RECURSIVE EscapeCount(_, _)
EscapeCount(line, j) ==
  IF j >= 1 /\ line[j] = "\\" THEN 1 + EscapeCount(line, j - 1) ELSE 0

\* The findIndex of lines 137-146: the position of the first "=" behind an
\* even number of backslashes, 0 for none.
EqIndex(line) ==
  LET hits == { i \in 1..Len(line) :
                  line[i] = "=" /\ EscapeCount(line, i - 1) % 2 = 0 }
  IN IF hits = {} THEN 0 ELSE CHOOSE i \in hits : \A j \in hits : i <= j

\* Lines 152-158: surrounding double or single quotes are removed.
StripQuotes(value) ==
  IF \/ StartsWith(value, <<"\"">>) /\ EndsWith(value, <<"\"">>)
     \/ StartsWith(value, <<"'">>) /\ EndsWith(value, <<"'">>)
    THEN SubSeq(value, 2, Len(value) - 1)
    ELSE value

\* object[key] = value: an existing key keeps its place.
SetVar(envVars, key, value) ==
  IF \E i \in 1..Len(envVars) : envVars[i].key = key
    THEN [i \in 1..Len(envVars) |->
            IF envVars[i].key = key THEN [key |-> key, value |-> value] ELSE envVars[i]]
    ELSE Append(envVars, [key |-> key, value |-> value])

\* The forEach callback of lines 131-163 applied to one line.
ParseLine(envVars, rawLine) ==
  LET line  == Trim(rawLine)
      eq    == EqIndex(line)
      key   == Trim(SubSeq(line, 1, eq - 1))
      value == StripQuotes(Trim(SubSeq(line, eq + 1, Len(line))))
  IN IF line = << >> \/ line[1] = "#" THEN envVars
     ELSE IF eq = 0 \/ key = << >> THEN envVars
     ELSE SetVar(envVars, key, value)

\* existingContent.split('\n').forEach(...), from existingEnvVars = {}.
RECURSIVE ParseEnv(_)
ParseEnv(lines) ==
  IF lines = << >> THEN << >>
  ELSE ParseLine(ParseEnv(DropLast(lines, 1)), lines[Len(lines)])

\* Lines 172-177: the new keys that have a value are spread over the
\* existing ones.
RECURSIVE MergeKeys(_, _)
MergeKeys(envVars, keys) ==
  IF keys = << >> THEN envVars
  ELSE LET merged == MergeKeys(envVars, DropLast(keys, 1))
           last   == keys[Len(keys)]
       IN IF last.value = << >> THEN merged
          ELSE SetVar(merged, last.key, last.value)

\* value.replace(/(?<!\\)"/g, '\\"')
RECURSIVE EscapeQuotes(_)
EscapeQuotes(value) ==
  IF value = << >> THEN << >>
  ELSE LET n == Len(value)
       IN EscapeQuotes(DropLast(value, 1)) \o
            (IF value[n] = "\"" /\ (n = 1 \/ value[n - 1] # "\\")
               THEN <<"\\", "\"">>
               ELSE <<value[n]>>)

\* Lines 179-188: one key="value" line per entry, joined by and ended with
\* a newline (so the split of the content ends with an empty string).
EnvContent(envVars) ==
  IF envVars = << >> THEN << << >>, << >> >>
  ELSE [i \in 1..Len(envVars) |->
          envVars[i].key \o <<"=", "\"">> \o EscapeQuotes(envVars[i].value) \o <<"\"">>]
       \o << << >> >>

NoFile == [exists |-> FALSE]
FileOf(lines) == [exists |-> TRUE, lines |-> lines]

\* writeKeysToFile(filePath, keys) on a path that holds file. readOk: the
\* readFileSync of line 129 does not throw; writeOk: neither mkdirSync nor
\* writeFileSync does.
WriteKeysToFile(file, keys, readOk, writeOk) ==
  LET existingEnvVars == IF file.exists /\ readOk THEN ParseEnv(file.lines) ELSE << >>
      mergedKeys      == MergeKeys(existingEnvVars, keys)
  IN IF writeOk
       THEN [ok |-> TRUE, file |-> FileOf(EnvContent(mergedKeys)),
             existingEnvVars |-> existingEnvVars]
       ELSE [ok |-> FALSE, file |-> file, existingEnvVars |-> existingEnvVars]

(***************************************************************************)
(* Specification of one writeKeysToFile call                               *)
(***************************************************************************)

\* Largest number of lines of the existing file.
MaxLines == 3

\* The lines an existing file is made of: a comment, an empty line, plain,
\* spaced and quoted assignments, a value holding a double quote, a key
\* holding an escaped "=", an assignment without a key, a line without "=".
EnvFileLines ==
  { <<"#", "A", "=", "0">>,
    << >>,
    <<"A", "=", "1">>,
    <<" ", "A", " ", "=", " ", "\"", "2", "\"">>,
    <<"B", "=", "x", "\"", "y">>,
    <<"B", "=", "'", "z", "'">>,
    <<"A", "\\", "=", "B", "=", "3">>,
    <<"=", "v">>,
    <<"C">> }

ExistingFiles == { NoFile } \cup { FileOf(l) : l \in SeqsUpTo(EnvFileLines, MaxLines) }

\* The keys argument: entries for A and B, each absent, empty or with a
\* value.
NewKeys ==
  LET forA == { << >> } \cup { << [key |-> <<"A">>, value |-> v] >> :
                                 v \in { << >>, <<"9">> } }
      forB == { << >> } \cup { << [key |-> <<"B">>, value |-> v] >> :
                                 v \in { << >>, <<"9">>, <<"q", "\"">> } }
  IN { a \o b : a \in forA, b \in forB }

InitWrite ==
  /\ \E file \in ExistingFiles, keys \in NewKeys :
       wk = [ before |-> file,   \* the file when the call starts
              keys   |-> keys,
              at     |-> "start",  \* start, returned, thrown
              file   |-> file,
              existingEnvVars |-> << >> ]
  /\ retry = Idle /\ gp = Idle /\ gm = Idle /\ cite = Idle /\ cred = Idle
  /\ env = Idle /\ px = Idle /\ inst = Idle

\* One call of writeKeysToFile, from entry to return or throw.
WriteStep ==
  /\ wk.at = "start"
  /\ \E readOk \in BOOLEAN, writeOk \in BOOLEAN :
       LET done == WriteKeysToFile(wk.file, wk.keys, readOk, writeOk)
       IN wk' = [wk EXCEPT !.at = IF done.ok THEN "returned" ELSE "thrown",
                           !.file = done.file,
                           !.existingEnvVars = done.existingEnvVars]
  /\ UNCHANGED <<retry, gp, gm, cite, cred, env, px, inst>>

NextWrite == WriteStep

SpecWrite == InitWrite /\ [][NextWrite]_vars

\* An object of environment variables has key, and has it with value.
HasKey(envVars, key) == \E i \in 1..Len(envVars) : envVars[i].key = key
HasVar(envVars, key, value) ==
  \E i \in 1..Len(envVars) : envVars[i].key = key /\ envVars[i].value = value

\* C11: after a successful writeKeysToFile, every variable parsed from the
\* existing file whose key is absent from the new keys, or has an empty new
\* value, is in the file with its previous value, and every key with a
\* non-empty new value is in the file with the new value (the file being
\* read as writeKeysToFile reads it).
ExistingVarsPreserved ==
  wk.at = "returned" =>
    LET written == ParseEnv(wk.file.lines)
        new     == MergeKeys(<< >>, wk.keys)
    IN /\ \A i \in 1..Len(wk.existingEnvVars) :
            ~HasKey(new, wk.existingEnvVars[i].key) =>
              HasVar(written, wk.existingEnvVars[i].key, wk.existingEnvVars[i].value)
       /\ \A i \in 1..Len(new) : HasVar(written, new[i].key, new[i].value)

\* The lines of a file: the elements of its split, but for the empty string
\* that follows a final newline.
LinesOf(file) ==
  IF ~file.exists THEN {}
  ELSE { file.lines[i] : i \in { i \in 1..Len(file.lines) :
                                   i < Len(file.lines) \/ file.lines[i] # << >> } }

\* C12: after a successful writeKeysToFile, every comment line and every
\* empty line of the existing file is a line of the file.
CommentsMaintained ==
  wk.at = "returned" =>
    \A line \in LinesOf(wk.before) :
      (Trim(line) = << >> \/ Trim(line)[1] = "#") => line \in LinesOf(wk.file)

(***************************************************************************)
(* InstallCommand.setupApiKeys and getUserInput (install.ts 36-49, 72-287) *)
(* A value of process.env or of keys is a sequence of characters, << >>    *)
(* when the variable is unset or empty.                                    *)
(***************************************************************************)

\* The properties of the keys object, in the order of lines 203-212.
KeyNames ==
  << "PERPLEXITY_API_KEY", "GEMINI_API_KEY", "OPENAI_API_KEY", "ANTHROPIC_API_KEY",
     "OPENROUTER_API_KEY", "MODELBOX_API_KEY", "CLICKUP_API_TOKEN", "SKIP_STAGEHAND" >>

\* The questions in the order of lines 214-272, each with the key its
\* answer is stored under (the Stagehand question stores SKIP_STAGEHAND).
PromptOrder ==
  << [ask |-> "Perplexity", key |-> "PERPLEXITY_API_KEY"],
     [ask |-> "Gemini",     key |-> "GEMINI_API_KEY"],
     [ask |-> "OpenRouter", key |-> "OPENROUTER_API_KEY"],
     [ask |-> "ModelBox",   key |-> "MODELBOX_API_KEY"],
     [ask |-> "Stagehand",  key |-> "SKIP_STAGEHAND"],
     [ask |-> "OpenAI",     key |-> "OPENAI_API_KEY"],
     [ask |-> "Anthropic",  key |-> "ANTHROPIC_API_KEY"],
     [ask |-> "ClickUp",    key |-> "CLICKUP_API_TOKEN"] >>

\* !!process.env[name]
Has(e, name) == e[name] # << >>

\* Line 90.
HasStagehandProvider(e) == Has(e, "OPENAI_API_KEY") \/ Has(e, "ANTHROPIC_API_KEY")

\* The condition of lines 92-100.
ShouldReturnEarly(e, apiKeysConfigFileExists) ==
  \/ /\ apiKeysConfigFileExists
     /\ Has(e, "PERPLEXITY_API_KEY") /\ Has(e, "GEMINI_API_KEY")
     /\ Has(e, "OPENROUTER_API_KEY") /\ Has(e, "MODELBOX_API_KEY")
     /\ Has(e, "CLICKUP_API_TOKEN")
  \/ /\ Has(e, "SKIP_CLICKUP")
     /\ HasStagehandProvider(e) \/ Has(e, "SKIP_STAGEHAND")

\* Lines 203-212: process.env[name] || ''.
InitialKeys(e) == [n \in { KeyNames[i] : i \in 1..Len(KeyNames) } |-> e[n]]

\* The keys object as writeKeysToFile receives it.
KeyList(keys) ==
  [i \in 1..Len(KeyNames) |-> [key |-> <<KeyNames[i]>>, value |-> keys[KeyNames[i]]]]

\* skipStagehand.toLowerCase() === 'y' || skipStagehand.toLowerCase() === 'yes'
IsYes(answer) ==
  ToLowerCase(answer) = <<"y">> \/ ToLowerCase(answer) = <<"y", "e", "s">>

\* The conditions under which the question ask is put (lines 214, 219, 224,
\* 231, 238, 246, 253, 267); stagehand is "setup" inside the else branch of
\* line 244.
ShouldAsk(ask, e, keys, stagehand) ==
  CASE ask = "Perplexity" -> ~Has(e, "PERPLEXITY_API_KEY")
    [] ask = "Gemini"     -> ~Has(e, "GEMINI_API_KEY")
    [] ask = "OpenRouter" -> ~Has(e, "OPENROUTER_API_KEY")
    [] ask = "ModelBox"   -> ~Has(e, "MODELBOX_API_KEY")
    [] ask = "Stagehand"  -> ~HasStagehandProvider(e) /\ ~Has(e, "SKIP_STAGEHAND")
    [] ask = "OpenAI"     -> stagehand = "setup" /\ ~Has(e, "OPENAI_API_KEY")
    [] ask = "Anthropic"  -> /\ stagehand = "setup" /\ ~Has(e, "ANTHROPIC_API_KEY")
                             /\ keys["OPENAI_API_KEY"] = << >>
    [] ask = "ClickUp"    -> ~Has(e, "CLICKUP_API_TOKEN")

\* Faulty variant of OnData: the listener is removed but stdin keeps flowing.
OnDataNoPause(stdin) == [flowing |-> TRUE, listeners |-> stdin.listeners - 1]

\* getUserInput's onData (lines 43-47): removeListener, then pause.
OnData(stdin) == [flowing |-> FALSE, listeners |-> stdin.listeners - 1]

\* Faulty variant of AfterHomeWrite: the local file is written in any case.
AfterHomeWriteAlways(ok) == "fallback"

\* Lines 274-282: where setupApiKeys goes after writeKeysToFile(homeEnvPath).
AfterHomeWrite(ok) == IF ok THEN "done" ELSE "fallback"

(***************************************************************************)
(* Specification of one setupApiKeys call. process.env is taken as         *)
(* loadEnv() left it; stdin delivers a data event only while it flows.     *)
(***************************************************************************)

\* The file a previous run left at either path.
OldEnvFile ==
  FileOf(<< <<"#", "c">>, <<"GEMINI_API_KEY", "=", "\"", "o", "\"">>, << >> >>)

\* The chunks a data event carries: an empty line, a key, and for the
\* Stagehand question the answers Yes, y and n.
StdinChunks(ask) ==
  IF ask = "Stagehand"
    THEN { <<"\n">>, <<" ", "Y", "e", "s", "\n">>, <<"y", "\n">>, <<"n", "\n">> }
    ELSE { <<"\n">>, <<"k", "\n">> }

InitInstall ==
  /\ \E e \in [ { KeyNames[i] : i \in 1..Len(KeyNames) } \cup { "SKIP_CLICKUP" }
                  -> { << >>, <<"e">> } ],
        home \in { NoFile, OldEnvFile },
        local \in { NoFile, OldEnvFile } :
       inst = [ env       |-> e,
                home      |-> home,
                local     |-> local,
                at        |-> "start",  \* start, run, waiting, write, fallback, done
                early     |-> FALSE,    \* returned at line 101
                step      |-> 1,        \* the question at hand, in PromptOrder
                stagehand |-> "none",   \* none, skip, setup
                keys      |-> InitialKeys(e),
                stdin     |-> [flowing |-> FALSE, listeners |-> 0],
                prompts   |-> << >>,    \* the questions written to stdout
                answers   |-> << >>,    \* what getUserInput resolved to
                dataEvents |-> 0,       \* stdin data events emitted
                writes    |-> << >>,    \* writeKeysToFile calls
                output    |-> << >> ]   \* the outcome messages yielded
  /\ retry = Idle /\ gp = Idle /\ gm = Idle /\ cite = Idle /\ cred = Idle
  /\ env = Idle /\ px = Idle /\ wk = Idle

\* Lines 73-102 and 203-212.
InstallBegin ==
  /\ inst.at = "start"
  /\ inst' = IF ShouldReturnEarly(inst.env, inst.home.exists \/ inst.local.exists)
               THEN [inst EXCEPT !.at = "done", !.early = TRUE]
               ELSE [inst EXCEPT !.at = "run"]
  /\ UNCHANGED <<retry, gp, gm, cite, cred, env, px, wk>>

\* The state after the question at hand is dealt with.
Advance(s) ==
  IF s.step = Len(PromptOrder) THEN [s EXCEPT !.at = "write"]
  ELSE [s EXCEPT !.at = "run", !.step = @ + 1]

\* getUserInput(prompt) up to its return (lines 37-48): the prompt is
\* written, stdin resumed and onData registered.
AskStep ==
  /\ inst.at = "run"
  /\ ShouldAsk(PromptOrder[inst.step].ask, inst.env, inst.keys, inst.stagehand)
  /\ inst' = [inst EXCEPT !.at = "waiting",
                          !.prompts = Append(@, PromptOrder[inst.step].ask),
                          !.stdin = [flowing |-> TRUE, listeners |-> @.listeners + 1]]
  /\ UNCHANGED <<retry, gp, gm, cite, cred, env, px, wk>>

\* The condition of the question at hand is false.
SkipStep ==
  /\ inst.at = "run"
  /\ ~ShouldAsk(PromptOrder[inst.step].ask, inst.env, inst.keys, inst.stagehand)
  /\ inst' = Advance(inst)
  /\ UNCHANGED <<retry, gp, gm, cite, cred, env, px, wk>>

\* A data event: onData resolves the promise and setupApiKeys stores the
\* answer (lines 216, 221, 228, 234, 241-245, 250, 257, 271).
AnswerStep ==
  /\ inst.stdin.flowing /\ inst.stdin.listeners > 0
  /\ \E chunk \in StdinChunks(PromptOrder[inst.step].ask) :
       LET answer == Trim(chunk)
           ask    == PromptOrder[inst.step].ask
           heard  == [inst EXCEPT !.stdin = OnData(@),
                                  !.dataEvents = @ + 1,
                                  !.answers = Append(@, answer)]
       IN inst' =
            IF ask = "Stagehand"
              THEN IF IsYes(answer)
                     THEN Advance([heard EXCEPT !.stagehand = "skip",
                                                !.keys["SKIP_STAGEHAND"] = <<"t", "r", "u", "e">>])
                     ELSE Advance([heard EXCEPT !.stagehand = "setup"])
              ELSE Advance([heard EXCEPT !.keys[PromptOrder[inst.step].key] = answer])
  /\ UNCHANGED <<retry, gp, gm, cite, cred, env, px, wk>>

\* Lines 274-276 and the catch of 277-278.
WriteHome ==
  /\ inst.at = "write"
  /\ \E readOk \in BOOLEAN, writeOk \in BOOLEAN :
       LET done == WriteKeysToFile(inst.home, KeyList(inst.keys), readOk, writeOk)
       IN inst' = [inst EXCEPT !.home = done.file,
                     !.writes = Append(@, [path |-> "home", ok |-> done.ok]),
                     !.output = IF done.ok THEN Append(@, "written to home") ELSE @,
                     !.at = AfterHomeWrite(done.ok)]
  /\ UNCHANGED <<retry, gp, gm, cite, cred, env, px, wk>>

\* Lines 280-281, and the catch of 283-286 when the local write throws.
WriteLocal ==
  /\ inst.at = "fallback"
  /\ \E readOk \in BOOLEAN, writeOk \in BOOLEAN :
       LET done == WriteKeysToFile(inst.local, KeyList(inst.keys), readOk, writeOk)
       IN inst' = [inst EXCEPT !.local = done.file,
                     !.writes = Append(@, [path |-> "local", ok |-> done.ok]),
                     !.output = Append(@, IF done.ok THEN "written to local"
                                          ELSE "Error setting up API keys"),
                     !.at = "done"]
  /\ UNCHANGED <<retry, gp, gm, cite, cred, env, px, wk>>

NextInstall ==
  InstallBegin \/ AskStep \/ SkipStep \/ AnswerStep \/ WriteHome \/ WriteLocal

SpecInstall == InitInstall /\ [][NextInstall]_vars

\* The number of outcome messages among those yielded.
OutcomeCount ==
  Cardinality({ i \in 1..Len(inst.output) :
                  inst.output[i] \in { "written to home", "written to local",
                                       "Error setting up API keys" } })

\* C13: a setupApiKeys call that gets to writing the keys writes the home
\* file first and the local file only after the home write threw; it reports
\* exactly one of "written to home", "written to local" and "Error setting up
\* API keys", the one that matches what the writes did; and it ends (without
\* throwing) even when both writes threw.
HomeFirstThenLocal ==
  /\ \A i \in 1..Len(inst.writes) :
       IF i = 1 THEN inst.writes[i].path = "home"
       ELSE i = 2 /\ inst.writes[i].path = "local" /\ ~inst.writes[1].ok
  /\ (inst.at = "fallback") => (Len(inst.writes) = 1 /\ ~inst.writes[1].ok)
  /\ (inst.at = "done" /\ ~inst.early) =>
       /\ OutcomeCount = 1
       /\ Len(inst.writes) >= 1
       /\ inst.writes[1].ok => inst.output = <<"written to home">>
       /\ (~inst.writes[1].ok) =>
            /\ Len(inst.writes) = 2
            /\ inst.output = << IF inst.writes[2].ok THEN "written to local"
                                ELSE "Error setting up API keys" >>
  /\ (inst.at # "done" /\ inst.at # "fallback") => inst.writes = << >>

\* C13 witness: both writes threw and the call ended with the error message,
\* the two files left as they were.
BothWritesFailed ==
  /\ inst.at = "done"
  /\ inst.writes = << [path |-> "home", ok |-> FALSE], [path |-> "local", ok |-> FALSE] >>
  /\ inst.output = << "Error setting up API keys" >>

\* C14: when setupApiKeys has ended, it has asked for each of
\* PERPLEXITY_API_KEY, GEMINI_API_KEY, OPENROUTER_API_KEY, MODELBOX_API_KEY and
\* CLICKUP_API_TOKEN that is not set in the environment; so it ends without a
\* question only when none of them is missing.
AsksForMissingKeys ==
  inst.at = "done" =>
    \A i \in { i \in 1..Len(PromptOrder) :
                 PromptOrder[i].ask \in { "Perplexity", "Gemini", "OpenRouter",
                                          "ModelBox", "ClickUp" } } :
      ~Has(inst.env, PromptOrder[i].key) =>
         \E j \in 1..Len(inst.prompts) : inst.prompts[j] = PromptOrder[i].ask

\* The place of a question in the order Perplexity, Gemini, OpenRouter,
\* ModelBox, Stagehand (its skip question, OpenAI, Anthropic), ClickUp.
PlaceOf(ask) ==
  CASE ask = "Perplexity" -> 1 [] ask = "Gemini" -> 2 [] ask = "OpenRouter" -> 3
    [] ask = "ModelBox" -> 4 [] ask = "Stagehand" -> 5 [] ask = "OpenAI" -> 6
    [] ask = "Anthropic" -> 7 [] ask = "ClickUp" -> 8

\* The questions asked so far.
Asked == { inst.prompts[i] : i \in 1..Len(inst.prompts) }

\* C18: the questions are asked in the fixed order, each at most once, with
\* at most one waiting for its answer; every answer took exactly one data
\* event, and stdin flows only while a question waits; after y or yes (in
\* any case) to the Stagehand question SKIP_STAGEHAND is 'true' and neither
\* the OpenAI nor the Anthropic key is asked for; the Anthropic key is asked
\* for only when no OpenAI key is at hand after the OpenAI question.
OneQuestionAtATime ==
  LET waiting == Len(inst.prompts) - Len(inst.answers) IN
  /\ \A i \in 1..Len(inst.prompts), j \in 1..Len(inst.prompts) :
       i < j => PlaceOf(inst.prompts[i]) < PlaceOf(inst.prompts[j])
  /\ waiting \in {0, 1}
  /\ inst.stdin.listeners = waiting
  /\ inst.stdin.flowing <=> waiting = 1
  /\ inst.dataEvents = Len(inst.answers)
  /\ \A i \in 1..Len(inst.answers) :
       (inst.prompts[i] = "Stagehand"
          /\ inst.answers[i] \in { <<"y">>, <<"Y">>, <<"y", "e", "s">>, <<"Y", "e", "s">> }) =>
         /\ inst.keys["SKIP_STAGEHAND"] = <<"t", "r", "u", "e">>
         /\ "OpenAI" \notin Asked /\ "Anthropic" \notin Asked
  /\ "Anthropic" \in Asked =>
       /\ inst.keys["OPENAI_API_KEY"] = << >>
       /\ \E i \in 1..Len(inst.answers) :
            inst.prompts[i] = "OpenAI" /\ inst.answers[i] = << >>

\* C18 witness: all eight questions were asked and answered, the Stagehand
\* one with n and the OpenAI one with an empty line.
AskedEverything ==
  /\ inst.at = "done"
  /\ inst.prompts = [i \in 1..Len(PromptOrder) |-> PromptOrder[i].ask]
  /\ inst.dataEvents = Len(PromptOrder)
  /\ ~inst.stdin.flowing

=============================================================================
